---------------------------- MODULE Spec2Model ----------------------------
(***************************************************************************)
(* MTFIFO (src/mtfifo.py): a pool of thread_count worker slots that drains *)
(* the FIFO queue UNHANDLED.                                               *)
(*                                                                         *)
(* Threads of the model:                                                   *)
(*   - caller threads (external code calling add_requests, add_threads,    *)
(*     Start, Stop),                                                       *)
(*   - dispatcher threads (one created by every Start() that passes its    *)
(*     test; running dispatcher_loop),                                     *)
(*   - worker threads (one created by every handle_request; running        *)
(*     worker, then checkIfDone, then possibly Stop and the END callback). *)
(*                                                                         *)
(* Atomicity: every `with self.lock` block is one action (the lock is      *)
(* never held across a blocking call); queue.Queue's put/get/empty are     *)
(* atomic by themselves and do NOT take self.lock; every other read or     *)
(* write of a shared attribute (self.running, self.dispatcher_thread) is a *)
(* step of its own, so the interleavings Python threads allow between two  *)
(* statements are interleavings of the model.                              *)
(***************************************************************************)
EXTENDS Integers, Sequences, FiniteSets, TLC

\* ------------------------------------------------------------ bounds
MaxSlots == 2       \* thread_count = len(THREADS) ranges over 1..MaxSlots
MaxTasks == 3       \* requests accepted by add_requests over a run
MaxFaults == 1      \* tasks whose handler or SUCCESS callback raises (FaultSpec)
MaxFaultTasks == 2  \* requests accepted over a run of FaultSpec
MaxCalls == 2       \* calls of add_requests / Start / Stop by the callers
MaxBatch == 2       \* length of the list passed to one add_requests call
NumCallers == 1     \* external caller threads

Tasks == 1..MaxTasks
Workers == Tasks                         \* the worker thread of task t is t
Callers == {-c : c \in 1..NumCallers}
Threads == Workers \cup Callers          \* threads that may run Stop()
Dispatchers == 1..MaxCalls               \* dispatcher thread objects
None == 0                                \* Python's None

\* One element of the list given to add_requests: a request whose 'func' is
\* callable, or one the test at line 74 rejects.
ReqKinds == {"ok", "bad"}

VARIABLES
    thread_count,       \* self.thread_count
    running,            \* self.running
    UNHANDLED,          \* self.UNHANDLED: sequence of task ids, head first
    BUSY_THREADS,       \* self.BUSY_THREADS: sequence of [index, request]
    dispatcher_thread,  \* self.dispatcher_thread: a dispatcher id or None
    dpc,                \* dispatcher d: position in dispatcher_loop
    free_threads,       \* dispatcher d: local free_threads still to visit
    request,            \* dispatcher d: local request after UNHANDLED.get()
    pc,                 \* worker or caller thread: position
    thread_idx,         \* worker t: the slot index it was given
    reqs,               \* caller c: the rest of the list given to add_requests
    joined,             \* thread in Stop(): the thread object it joins
    handlers,           \* caller c: the rest of the list given to add_threads
    \* history (observation only; no action's guard reads them)
    accepted,           \* requests put on UNHANDLED so far (= last task id)
    calls,              \* caller operations begun so far
    resubmit,           \* <<ENDS>> as it was when the latest add_requests call
                        \* began, if the pool was drained and END had fired;
                        \* else <<>>
    dispatched,         \* task ids in the order handle_request marked them busy
    SUCCESS,            \* per task: invocations of request_success_callback
    ERROR,              \* per task: invocations of request_error_callback
    ENDS,               \* invocations of request_END_callback
    discarded,          \* list elements add_requests rejected at line 74
    pass                \* dispatcher d, inside a pass no put has overlapped:
                        \* <<len(free_threads), queue length>> as they were
                        \* when the pass read free_threads; else <<>>

shared == <<thread_count, running, UNHANDLED, BUSY_THREADS, dispatcher_thread>>
dlocal == <<dpc, free_threads, request>>
tlocal == <<pc, thread_idx, reqs, joined, handlers>>
hist   == <<accepted, calls, resubmit, dispatched, SUCCESS, ERROR, ENDS,
           discarded>>
vars   == <<shared, dlocal, tlocal, hist, pass>>

\* ------------------------------------------------------------ helpers
RECURSIVE SelectIdx(_, _)
\* [b for b in BUSY_THREADS if b['index'] != idx]
SelectIdx(busy, idx) ==
    IF busy = <<>> THEN <<>>
    ELSE IF Head(busy).index # idx
         THEN <<Head(busy)>> \o SelectIdx(Tail(busy), idx)
         ELSE SelectIdx(Tail(busy), idx)

busy_indices(busy) == {busy[i].index : i \in 1..Len(busy)}

RECURSIVE Ascending(_, _, _)
\* [i for i in range(n) if i not in indices], from i upwards
Ascending(i, n, indices) ==
    IF i >= n THEN <<>>
    ELSE IF i \in indices THEN Ascending(i + 1, n, indices)
         ELSE <<i>> \o Ascending(i + 1, n, indices)

\* get_free_threads(): under the lock, the slot indices (0-based) not in
\* BUSY_THREADS, ascending.
get_free_threads(busy, n) == Ascending(0, n, busy_indices(busy))

Alive(d) == d # None /\ dpc[d] \notin {"none", "dead"}

\* Every task accepted so far has run its handler, its callback and has freed
\* its slot (observation; p is the pc map to look at).
AllCompleted(p) ==
    \A t \in Tasks : t <= accepted => p[t] \notin {"none", "run", "free"}

\* ------------------------------------------------------------ Init
\* lines 20-31: what __init__ sets besides THREADS and thread_count (and the
\* threads and observations of the model before anything has run).
Fields ==
    /\ running = FALSE
    /\ UNHANDLED = <<>>
    /\ BUSY_THREADS = <<>>
    /\ dispatcher_thread = None
    /\ dpc = [d \in Dispatchers |-> "none"]
    /\ free_threads = [d \in Dispatchers |-> <<>>]
    /\ request = [d \in Dispatchers |-> None]
    /\ pc = [t \in Threads |-> IF t \in Callers THEN "idle" ELSE "none"]
    /\ thread_idx = [t \in Workers |-> 0]
    /\ reqs = [c \in Callers |-> <<>>]
    /\ joined = [t \in Threads |-> None]
    /\ handlers = [c \in Callers |-> <<>>]
    /\ accepted = 0
    /\ calls = 0
    /\ resubmit = <<>>
    /\ dispatched = <<>>
    /\ SUCCESS = [t \in Tasks |-> 0]
    /\ ERROR = [t \in Tasks |-> 0]
    /\ ENDS = 0
    /\ discarded = 0
    /\ pass = [d \in Dispatchers |-> <<>>]

\* A pool constructed with a list of 1..MaxSlots handlers.
Init ==
    /\ thread_count \in 1..MaxSlots
    /\ Fields

\* The options dicts given to the constructor: without the key 'THREADS', or
\* with a list of 0..MaxSlots handlers under it.
HandlerLists == UNION {[1..n -> {"handler"}] : n \in 0..MaxSlots}
OptionsDicts == {[k \in {} |-> <<>>]} \cup {[THREADS |-> l] : l \in HandlerLists}

\* lines 14-15: `if 'THREADS' not in options: raise ValueError(...)` -- the
\* only test of __init__.
Raises(options) == "THREADS" \notin DOMAIN options

\* lines 13-31: the pools the constructor returns.
Constructed ==
    \E options \in OptionsDicts :
        /\ ~Raises(options)
        /\ thread_count = Len(options.THREADS)
        /\ Fields


\* ------------------------------------------------------------ dispatcher_loop
\* line 144: `while self.running:` -- the loop test; the thread ends when it
\* reads False.  (time.sleep at line 145 changes no state.)
DWhile(d) ==
    /\ dpc[d] = "while"
    /\ dpc' = [dpc EXCEPT ![d] = IF running THEN "poll" ELSE "dead"]
    /\ UNCHANGED <<shared, free_threads, request, tlocal, hist,
                   pass>>

\* line 147 and the first operand of line 148: free_threads =
\* self.get_free_threads(); `not free_threads` -> continue.
DFree(d) ==
    /\ dpc[d] = "poll"
    /\ LET f == get_free_threads(BUSY_THREADS, thread_count)
       IN  /\ free_threads' = [free_threads EXCEPT ![d] = f]
           /\ dpc' = [dpc EXCEPT ![d] = IF f = <<>> THEN "while" ELSE "check"]
           /\ pass' = [pass EXCEPT ![d] = IF f = <<>> THEN <<>>
                                          ELSE <<Len(f), Len(UNHANDLED)>>]
    /\ UNCHANGED <<shared, request, tlocal, hist>>

\* The local free_threads is dead once the pass is left (line 147 assigns it
\* anew before its next use): the model forgets it there, and with it what
\* the pass began with.
Leave(leaving, f) == IF leaving THEN <<>> ELSE f

\* line 148, second operand: `self.UNHANDLED.empty()` -> continue.
DCheck(d) ==
    /\ dpc[d] = "check"
    /\ dpc' = [dpc EXCEPT ![d] = IF UNHANDLED = <<>> THEN "while" ELSE "for"]
    /\ free_threads' = [free_threads EXCEPT ![d] = Leave(UNHANDLED = <<>>, @)]
    /\ pass' = [pass EXCEPT ![d] = Leave(UNHANDLED = <<>>, @)]
    /\ UNCHANGED <<shared, request, tlocal, hist>>

\* lines 152-154: the next idx of the for loop; `if self.UNHANDLED.empty():
\* break`.  (An exhausted free_threads list leaves the loop in DHandle.)
DFor(d) ==
    /\ dpc[d] = "for"
    /\ dpc' = [dpc EXCEPT ![d] = IF UNHANDLED = <<>> THEN "while" ELSE "get"]
    /\ free_threads' = [free_threads EXCEPT ![d] = Leave(UNHANDLED = <<>>, @)]
    /\ pass' = [pass EXCEPT ![d] = Leave(UNHANDLED = <<>>, @)]
    /\ UNCHANGED <<shared, request, tlocal, hist>>

\* A get that reads the head of the queue and leaves it there.
DGetPeek(d) ==
    /\ dpc[d] = "get"
    /\ UNHANDLED # <<>>
    /\ request' = [request EXCEPT ![d] = Head(UNHANDLED)]
    /\ dpc' = [dpc EXCEPT ![d] = "handle"]
    /\ UNCHANGED <<shared, free_threads, tlocal, hist, pass>>

\* line 155: request = self.UNHANDLED.get() -- a blocking get: the thread
\* waits while the queue is empty.
DGet(d) ==
    /\ dpc[d] = "get"
    /\ UNHANDLED # <<>>
    /\ request' = [request EXCEPT ![d] = Head(UNHANDLED)]
    /\ UNHANDLED' = Tail(UNHANDLED)
    /\ dpc' = [dpc EXCEPT ![d] = "handle"]
    /\ UNCHANGED <<thread_count, running, BUSY_THREADS, dispatcher_thread,
                   free_threads, tlocal, hist,
                   pass>>

\* lines 95-98: handle_request marks the slot busy (under the lock).
MarkBusy(busy, idx, req) == Append(busy, [index |-> idx, request |-> req])

\* line 156 = handle_request(request, idx), lines 95-116: mark the slot busy,
\* start the worker thread; then the for loop takes its next idx.
DHandle(d) ==
    /\ dpc[d] = "handle"
    /\ LET idx == Head(free_threads[d])
           t   == request[d]
           rest == Tail(free_threads[d])
       IN  /\ BUSY_THREADS' = MarkBusy(BUSY_THREADS, idx, t)
           /\ pc' = [pc EXCEPT ![t] = "run"]
           /\ thread_idx' = [thread_idx EXCEPT ![t] = idx]
           /\ dispatched' = Append(dispatched, t)
           /\ free_threads' = [free_threads EXCEPT ![d] = rest]
           /\ pass' = [pass EXCEPT ![d] = Leave(rest = <<>>, @)]
           /\ dpc' = [dpc EXCEPT ![d] = IF rest = <<>> THEN "while" ELSE "for"]
    /\ request' = [request EXCEPT ![d] = None]
    /\ UNCHANGED <<thread_count, running, UNHANDLED, dispatcher_thread,
                   reqs, joined, accepted, calls, resubmit, SUCCESS, ERROR, ENDS,
                   handlers, discarded>>

Dispatcher(d) ==
    DWhile(d) \/ DFree(d) \/ DCheck(d) \/ DFor(d) \/ DGet(d) \/ DHandle(d)

\* ------------------------------------------------------------ worker
\* What the handler THREADS[thread_idx](request) does, and what the SUCCESS
\* callback does when it is called: both are the caller's code.
HandlerOutcomes == {"return", "raise"}
CallbackOutcomes == {"ok", "raise"}

\* lines 102-107: try: result = handler(request); success_callback(result)
\*                except Exception: error_callback(...)
\* The except clause covers the callback as well as the handler.
ErrorCalls(h, cb) == IF h = "raise" \/ cb = "raise" THEN 1 ELSE 0
SuccessCalls(h) == IF h = "return" THEN 1 ELSE 0

RECURSIVE Sum(_, _)
Sum(f, S) == IF S = {} THEN 0
             ELSE LET x == CHOOSE y \in S : TRUE IN f[x] + Sum(f, S \ {x})

\* tasks whose completion invoked the ERROR callback so far
Faults == Sum(ERROR, Tasks)

\* maxf bounds the tasks of a run whose handler or callback raises.
WRun(t, maxf) ==
    /\ pc[t] = "run"
    /\ \E h \in HandlerOutcomes, cb \in CallbackOutcomes :
         /\ ErrorCalls(h, cb) > 0 => Faults < maxf
         /\ SUCCESS' = [SUCCESS EXCEPT ![t] = @ + SuccessCalls(h)]
         /\ ERROR' = [ERROR EXCEPT ![t] = @ + ErrorCalls(h, cb)]
    /\ pc' = [pc EXCEPT ![t] = "free"]
    /\ UNCHANGED <<shared, dlocal, thread_idx, reqs, joined,
                   accepted, calls, resubmit, dispatched, ENDS,
                   handlers, discarded, pass>>

\* A completion that frees every slot, not only its own.
WFreeClears(t) ==
    /\ pc[t] = "free"
    /\ BUSY_THREADS' = <<>>
    /\ pc' = [pc EXCEPT ![t] = "check"]
    /\ UNCHANGED <<thread_count, running, UNHANDLED, dispatcher_thread,
                   dlocal, thread_idx, reqs, joined, handlers, hist, pass>>

\* lines 110-111 (finally, under the lock): free the slot.
WFree(t) ==
    /\ pc[t] = "free"
    /\ BUSY_THREADS' = SelectIdx(BUSY_THREADS, thread_idx[t])
    /\ pc' = [pc EXCEPT ![t] = "check"]
    /\ UNCHANGED <<thread_count, running, UNHANDLED, dispatcher_thread,
                   dlocal, thread_idx, reqs, joined, hist,
                   handlers, pass>>

\* lines 124-128: the drain test of checkIfDone.  Both reads happen inside the
\* lock, which freezes BUSY_THREADS, so the pair is a snapshot taken at the
\* read of the queue.
Drained(queue, busy) == queue = <<>> /\ Len(busy) = 0

WCheck(t) ==
    /\ pc[t] = "check"
    /\ pc' = [pc EXCEPT ![t] = IF Drained(UNHANDLED, BUSY_THREADS)
                               THEN "stop" ELSE "done"]
    /\ UNCHANGED <<shared, dlocal, thread_idx, reqs, joined, hist,
                   handlers, pass>>

\* line 130: self.request_END_callback(), after Stop() returned.
WEnd(t) ==
    /\ pc[t] = "end"
    /\ ENDS' = ENDS + 1
    /\ pc' = [pc EXCEPT ![t] = "done"]
    /\ UNCHANGED <<shared, dlocal, thread_idx, reqs, joined,
                   accepted, calls, resubmit, dispatched, SUCCESS, ERROR,
                   handlers, discarded, pass>>

\* ------------------------------------------------------------ Stop
\* Where Stop() returns to: the END callback in checkIfDone, or the caller.
AfterStop(self) == IF self \in Workers THEN "end" ELSE "idle"

\* line 168: `if self.running:`
StopTest(self) ==
    /\ pc[self] = "stop"
    /\ pc' = [pc EXCEPT ![self] = IF running THEN "stop_set" ELSE AfterStop(self)]
    /\ UNCHANGED <<shared, dlocal, thread_idx, reqs, joined, hist,
                   handlers, pass>>

\* A Stop() that also abandons the executions in flight: their workers end
\* without callback and their busy records are dropped.
StopSetCancels(self) ==
    /\ pc[self] = "stop_set"
    /\ running' = FALSE
    /\ BUSY_THREADS' = <<>>
    /\ pc' = [t \in Threads |->
                IF t = self THEN "stop_alive"
                ELSE IF pc[t] = "run" THEN "done" ELSE pc[t]]
    /\ UNCHANGED <<thread_count, UNHANDLED, dispatcher_thread,
                   dlocal, thread_idx, reqs, joined, hist,
                   handlers, pass>>

\* line 169: self.running = False
StopSet(self) ==
    /\ pc[self] = "stop_set"
    /\ running' = FALSE
    /\ pc' = [pc EXCEPT ![self] = "stop_alive"]
    /\ UNCHANGED <<thread_count, UNHANDLED, BUSY_THREADS, dispatcher_thread,
                   dlocal, thread_idx, reqs, joined, hist,
                   handlers, pass>>

\* line 170: `if self.dispatcher_thread and self.dispatcher_thread.is_alive():`
StopAlive(self) ==
    /\ pc[self] = "stop_alive"
    /\ IF Alive(dispatcher_thread)
       THEN /\ joined' = [joined EXCEPT ![self] = dispatcher_thread]
            /\ pc' = [pc EXCEPT ![self] = "stop_join"]
       ELSE /\ pc' = [pc EXCEPT ![self] = "stop_clear"]
            /\ UNCHANGED joined
    /\ UNCHANGED <<shared, dlocal, thread_idx, reqs, hist,
                   handlers, pass>>

\* join(timeout=1.0) returns when the joined thread has ended, or after one
\* second.  The model has no clock: a dispatcher that has to read
\* running = False at its next loop test ends within a poll interval (50 ms)
\* and is waited for; the timeout is taken when the thread does not end
\* because the pool was restarted meanwhile, or because the thread is blocked
\* in UNHANDLED.get() on an empty queue.
JoinReturns(d) ==
    \/ ~Alive(d)
    \/ running
    \/ dpc[d] = "get" /\ UNHANDLED = <<>>

\* line 171: self.dispatcher_thread.join(timeout=1.0)
StopJoin(self) ==
    /\ pc[self] = "stop_join"
    /\ JoinReturns(joined[self])
    /\ joined' = [joined EXCEPT ![self] = None]
    /\ pc' = [pc EXCEPT ![self] = "stop_clear"]
    /\ UNCHANGED <<shared, dlocal, thread_idx, reqs, hist,
                   handlers, pass>>

\* line 172: self.dispatcher_thread = None
StopClear(self) ==
    /\ pc[self] = "stop_clear"
    /\ dispatcher_thread' = None
    /\ pc' = [pc EXCEPT ![self] = AfterStop(self)]
    /\ UNCHANGED <<thread_count, running, UNHANDLED, BUSY_THREADS,
                   dlocal, thread_idx, reqs, joined, hist,
                   handlers, pass>>

Stop(self) ==
    StopTest(self) \/ StopSet(self) \/ StopAlive(self) \/ StopJoin(self)
        \/ StopClear(self)

Worker(t, maxf) ==
    WRun(t, maxf) \/ WFree(t) \/ WCheck(t) \/ Stop(t) \/ WEnd(t)


\* ------------------------------------------------------------ callers
RECURSIVE OkCount(_)
OkCount(batch) ==
    IF batch = <<>> THEN 0
    ELSE (IF Head(batch) = "ok" THEN 1 ELSE 0) + OkCount(Tail(batch))

RECURSIVE PendingOk(_)
\* requests still to be put by the add_requests calls in progress
PendingOk(cs) ==
    IF cs = {} THEN 0
    ELSE LET c == CHOOSE x \in cs : TRUE
         IN  OkCount(reqs[c]) + PendingOk(cs \ {c})

Batches == UNION {[1..n -> ReqKinds] : n \in 0..MaxBatch}

\* A caller begins add_requests(batch), lines 69-71.  cap bounds the requests
\* accepted over the run.
CallAdd(c, cap) ==
    /\ pc[c] = "idle"
    /\ calls < MaxCalls
    /\ \E batch \in Batches :
         /\ accepted + PendingOk(Callers) + OkCount(batch) <= cap
         /\ reqs' = [reqs EXCEPT ![c] = batch]
         /\ resubmit' = IF OkCount(batch) > 0 /\ ENDS > 0 /\ AllCompleted(pc)
                         THEN <<ENDS>> ELSE <<>>
         /\ pc' = [pc EXCEPT ![c] = IF batch = <<>> THEN "add_test" ELSE "put"]
    /\ calls' = calls + 1
    /\ UNCHANGED <<shared, dlocal, thread_idx, joined,
                   accepted, dispatched, SUCCESS, ERROR, ENDS,
                   handlers, discarded, pass>>

\* line 74: `if r and callable(r.get('func')):`
Valid(r) == r = "ok"

\* An add_requests that puts every element of the list, whatever its 'func'.
AddPutUnchecked(c) ==
    /\ pc[c] = "put"
    /\ LET rest == Tail(reqs[c])
       IN  /\ accepted' = accepted + 1
           /\ UNHANDLED' = Append(UNHANDLED, accepted + 1)
           /\ pass' = [d \in Dispatchers |-> <<>>]
           /\ reqs' = [reqs EXCEPT ![c] = rest]
           /\ pc' = [pc EXCEPT ![c] = IF rest = <<>> THEN "add_test" ELSE "put"]
    /\ UNCHANGED <<thread_count, running, BUSY_THREADS, dispatcher_thread,
                   dlocal, thread_idx, joined, handlers,
                   calls, resubmit, dispatched, SUCCESS, ERROR, ENDS, discarded>>

\* lines 73-75: one turn of the for loop: put r if it is valid.
AddPut(c) ==
    /\ pc[c] = "put"
    /\ LET r == Head(reqs[c])
           rest == Tail(reqs[c])
       IN  /\ IF Valid(r)
              THEN /\ accepted' = accepted + 1
                   /\ UNHANDLED' = Append(UNHANDLED, accepted + 1)
                   /\ pass' = [d \in Dispatchers |-> <<>>]
                   /\ UNCHANGED discarded
              ELSE /\ discarded' = discarded + 1
                   /\ UNCHANGED <<accepted, UNHANDLED, pass>>
           /\ reqs' = [reqs EXCEPT ![c] = rest]
           /\ pc' = [pc EXCEPT ![c] = IF rest = <<>> THEN "add_test" ELSE "put"]
    /\ UNCHANGED <<thread_count, running, BUSY_THREADS, dispatcher_thread,
                   dlocal, thread_idx, joined,
                   calls, resubmit, dispatched, SUCCESS, ERROR, ENDS,
                   handlers>>

\* An add_requests that starts the pool only when something is queued.
AddTestIfQueued(c) ==
    /\ pc[c] = "add_test"
    /\ pc' = [pc EXCEPT ![c] = IF running \/ UNHANDLED = <<>>
                               THEN "idle" ELSE "start"]
    /\ UNCHANGED <<shared, dlocal, thread_idx, reqs, joined, hist,
                   handlers, pass>>

\* line 77: `if not self.running:` -> self.Start()
AddTest(c) ==
    /\ pc[c] = "add_test"
    /\ pc' = [pc EXCEPT ![c] = IF running THEN "idle" ELSE "start"]
    /\ UNCHANGED <<shared, dlocal, thread_idx, reqs, joined, hist,
                   handlers, pass>>

\* A caller begins Start().
CallStart(c) ==
    /\ pc[c] = "idle"
    /\ calls < MaxCalls
    /\ calls' = calls + 1
    /\ pc' = [pc EXCEPT ![c] = "start"]
    /\ UNCHANGED <<shared, dlocal, thread_idx, reqs, joined,
                   accepted, resubmit, dispatched, SUCCESS, ERROR, ENDS,
                   handlers, discarded, pass>>

\* lines 138-139: `if self.running: return`
StartTest(c) ==
    /\ pc[c] = "start"
    /\ pc' = [pc EXCEPT ![c] = IF running THEN "idle" ELSE "start_set"]
    /\ UNCHANGED <<shared, dlocal, thread_idx, reqs, joined, hist,
                   handlers, pass>>

\* The thread object the next threading.Thread(target=dispatcher_loop) is.
NewDispatcher ==
    CHOOSE d \in Dispatchers :
        dpc[d] = "none" /\ \A e \in Dispatchers : e < d => dpc[e] # "none"

\* lines 141, 158-160: self.running = True; create and start the dispatcher
\* thread.  (The new thread's first step reads self.running, so nothing can
\* tell the three statements apart from one step.)
StartSet(c) ==
    /\ pc[c] = "start_set"
    /\ running' = TRUE
    /\ dispatcher_thread' = NewDispatcher
    /\ dpc' = [dpc EXCEPT ![NewDispatcher] = "while"]
    /\ pc' = [pc EXCEPT ![c] = "idle"]
    /\ UNCHANGED <<thread_count, UNHANDLED, BUSY_THREADS, free_threads, request,
                   thread_idx, reqs, joined, hist,
                   handlers, pass>>

\* A caller begins Stop().
CallStop(c) ==
    /\ pc[c] = "idle"
    /\ calls < MaxCalls
    /\ calls' = calls + 1
    /\ pc' = [pc EXCEPT ![c] = "stop"]
    /\ UNCHANGED <<shared, dlocal, thread_idx, reqs, joined,
                   accepted, resubmit, dispatched, SUCCESS, ERROR, ENDS,
                   handlers, discarded, pass>>

\* The lists given to add_threads: each element a callable or something else
\* (a single handler is wrapped into a list at lines 56-57).
HandlerKinds == {"callable", "other"}
ThreadsArgs == UNION {[1..n -> HandlerKinds] : n \in 0..MaxBatch}

\* A caller begins add_threads(Threads), lines 55-57.
CallAddThreads(c) ==
    /\ pc[c] = "idle"
    /\ calls < MaxCalls
    /\ calls' = calls + 1
    /\ \E Threads_ \in ThreadsArgs : handlers' = [handlers EXCEPT ![c] = Threads_]
    /\ pc' = [pc EXCEPT ![c] = "add_threads"]
    /\ UNCHANGED <<shared, dlocal, thread_idx, reqs, joined,
                   accepted, resubmit, dispatched, SUCCESS, ERROR, ENDS,
                   discarded, pass>>

\* line 60: `if t and callable(t):`
Callable(t) == t = "callable"

\* lines 59-61: one turn of the for loop, or its end.  self.THREADS is a
\* list, which has no attribute `put`: line 61 raises AttributeError, which
\* ends the call.  Nothing in add_threads assigns THREADS or thread_count.
AddThreadsPut(c) ==
    /\ pc[c] = "add_threads"
    /\ IF handlers[c] = <<>>
       THEN pc' = [pc EXCEPT ![c] = "idle"] /\ UNCHANGED handlers
       ELSE IF Callable(Head(handlers[c]))
            THEN /\ handlers' = [handlers EXCEPT ![c] = <<>>]
                 /\ pc' = [pc EXCEPT ![c] = "idle"]
            ELSE /\ handlers' = [handlers EXCEPT ![c] = Tail(@)]
                 /\ UNCHANGED pc
    /\ UNCHANGED <<shared, dlocal, thread_idx, reqs, joined, hist, pass>>

add_threads(c) == CallAddThreads(c) \/ AddThreadsPut(c)

add_requests(c, cap) == CallAdd(c, cap) \/ AddPut(c) \/ AddTest(c)
Start(c) == CallStart(c) \/ StartTest(c) \/ StartSet(c)

\* ------------------------------------------------------------ specification
\* The pool under callers that submit at most cap requests, of which at most
\* maxf have a handler or a SUCCESS callback that raises.
Step(cap, maxf) ==
    \/ \E d \in Dispatchers : Dispatcher(d)
    \/ \E t \in Workers : Worker(t, maxf)
    \/ \E c \in Callers :
         add_requests(c, cap) \/ Start(c) \/ CallStop(c) \/ Stop(c)

\* Handlers that return and callbacks that do not raise: what a worker does
\* after the callbacks (lines 108-112) does not depend on their outcome.
Next == Step(MaxTasks, 0)

Spec == Init /\ [][Next]_vars

\* Handlers and SUCCESS callbacks that may raise.
FaultNext == Step(MaxFaultTasks, MaxFaults)

FaultSpec == Init /\ [][FaultNext]_vars

\* Callers that never call Stop().
NoStopNext ==
    \/ \E d \in Dispatchers : Dispatcher(d)
    \/ \E t \in Workers : Worker(t, 0)
    \/ \E c \in Callers : add_requests(c, MaxTasks) \/ Start(c)

NoStopSpec == Init /\ [][NoStopNext]_vars

\* Callers that make a single call, add_requests, on the new pool.
OneCallNext ==
    \/ \E d \in Dispatchers : Dispatcher(d)
    \/ \E t \in Workers : Worker(t, 0)
    \/ \E c \in Callers :
         \/ calls = 0 /\ CallAdd(c, MaxTasks)
         \/ AddPut(c) \/ AddTest(c) \/ StartTest(c) \/ StartSet(c)

\* A call that has begun runs to its return; threads as in FairFaultSpec.
OneCallFairSpec ==
    /\ Init /\ [][OneCallNext]_vars
    /\ \A c \in Callers :
         WF_vars(AddPut(c) \/ AddTest(c) \/ StartTest(c) \/ StartSet(c))
    /\ \A t \in Workers : WF_vars(Worker(t, 0))
    /\ \A d \in Dispatchers : WF_vars(Dispatcher(d))

\* Any pool the constructor returns, under one add_requests call.
ConstructedSpec == Constructed /\ [][OneCallNext]_vars

\* Callers that also call add_threads.
ThreadsNext == Step(MaxFaultTasks, 0) \/ \E c \in Callers : add_threads(c)

ThreadsSpec == Init /\ [][ThreadsNext]_vars

\* Every started thread is an OS thread of its own and handlers terminate: a
\* dispatcher or worker that can take a step eventually takes one.
FairFaultSpec ==
    /\ FaultSpec
    /\ \A t \in Workers : WF_vars(Worker(t, MaxFaults))
    /\ \A d \in Dispatchers : WF_vars(Dispatcher(d))

\* ------------------------------------------------------------ observations
\* The tasks whose handler is executing: dispatched, not yet completed.
Executing == {t \in Tasks : pc[t] = "run"}

\* The tasks a dispatcher has taken off the queue and not yet marked busy.
InHand == {request[d] : d \in Dispatchers} \ {None}

\* The dispatcher loops that are live.
Live == {d \in Dispatchers : Alive(d)}

\* ------------------------------------------------------------ claims
\* C1: in every reachable state no slot index appears in more than one
\* record of BUSY_THREADS (a slot is never given a second task while it still
\* executes one).
C1_SlotInOneRecord ==
    \A i, j \in 1..Len(BUSY_THREADS) :
        i # j => BUSY_THREADS[i].index # BUSY_THREADS[j].index

\* C2: tasks are marked busy by handle_request in the order add_requests
\* enqueued them (task ids number the enqueue order): a task enqueued earlier
\* is dispatched earlier.
C2_DispatchInEnqueueOrder ==
    \A i, j \in 1..Len(dispatched) : i < j => dispatched[i] < dispatched[j]

\* C3: the number of tasks dispatched and not yet completed never exceeds the
\* number of slots.
C3_AtMostNExecuting == Cardinality(Executing) <= thread_count

\* C4: one drain episode gets one END.  After a single add_requests call (one
\* batch, enqueued before the pool starts, and no other call) the END callback
\* has been invoked at most once.
C4_OneBatchOneEnd == calls = 1 => ENDS <= 1

\* No accepted task is still queued, in a dispatcher's hand, or executing.
NothingOutstanding ==
    /\ UNHANDLED = <<>>
    /\ InHand = {}
    /\ \A t \in Tasks : t <= accepted => pc[t] \notin {"none", "run"}

\* C5: whenever checkIfDone invokes the END callback, every task accepted so
\* far has completed.
C5_EndAfterAllCompleted == [][ENDS' = ENDS + 1 => NothingOutstanding]_vars

\* The worker of task t is past its try/except (lines 102-107).
Finished(t) == pc[t] \notin {"none", "run"}

\* C6: a dispatched task gets exactly one completion callback: never both
\* SUCCESS and ERROR, and one of them once its handler has finished.
C6_OneCallbackPerTask ==
    \A t \in Tasks :
        /\ SUCCESS[t] + ERROR[t] <= 1
        /\ Finished(t) => SUCCESS[t] + ERROR[t] = 1

\* No caller is inside add_requests or Start.
NoSubmission ==
    \A c \in Callers : pc[c] \notin {"put", "add_test", "start", "start_set"}

\* C7: while the pool is Idle (running = False) and no add_requests or Start
\* call is under way, no task is dequeued and none is dispatched.
C7_IdleDispatchesNothing ==
    [][(~running /\ NoSubmission)
         => (UNHANDLED' = UNHANDLED /\ dispatched' = dispatched)]_vars

\* Task t has its completion callback behind it and no busy record left.
Completed(t) ==
    /\ SUCCESS[t] + ERROR[t] >= 1
    /\ \A i \in 1..Len(BUSY_THREADS) : BUSY_THREADS[i].request # t

\* The worker of task t has run the drain test of checkIfDone.
PastDrainCheck(t) ==
    pc[t] \in {"stop", "stop_set", "stop_alive", "stop_join", "stop_clear",
               "end", "done"}

\* C8: Stop() cancels no execution in flight.  A dispatched task runs to
\* completion whatever Stop() does meanwhile: its SUCCESS or ERROR callback is
\* invoked, its busy record is removed and its worker runs the drain test.
C8_InFlightCompletes ==
    \A t \in Tasks : (pc[t] = "run") ~> (PastDrainCheck(t) /\ Completed(t))

\* C8 witness: a caller's Stop() has made the pool Idle (and is waiting for
\* the dispatcher) while a task is executing and others are still queued.
C8_Witness ==
    \E c \in Callers, t \in Tasks :
        /\ pc[c] = "stop_join"
        /\ ~running
        /\ pc[t] = "run"
        /\ UNHANDLED # <<>>

\* Nothing is in progress: no caller inside a call, every dispatcher loop
\* ended, every worker thread ended.
Settled ==
    /\ \A c \in Callers : pc[c] = "idle"
    /\ \A d \in Dispatchers : dpc[d] \in {"none", "dead"}
    /\ \A t \in Tasks : pc[t] \in {"none", "done"}

\* C9: a batch submitted after a full drain (END fired, every earlier task
\* completed) is processed to its end and gets exactly one further END.
C9_ResubmitOneMoreEnd ==
    (resubmit # <<>> /\ Settled)
        => /\ UNHANDLED = <<>>
           /\ AllCompleted(pc)
           /\ ENDS = resubmit[1] + 1

\* C10: no accepted task is stranded.  When the callers never call Stop(), the
\* pool does not come to rest with a task still queued.
C10_NoTaskStranded == Settled => UNHANDLED = <<>>

\* The dispatcher loops inside a dispatch pass: past `while self.running`
\* (line 144) and not yet back at it.
InPass == {d \in Dispatchers : dpc[d] \in {"poll", "check", "for", "get", "handle"}}

\* C11: at most one dispatcher loop is live: never are two dispatcher_loop
\* threads inside the dispatch pass at the same time.
C11_OneDispatcherInPass == Cardinality(InPass) <= 1

\* The step of add_requests (lines 73-75) that passes over a request whose
\* 'func' is not callable.
DiscardStep(c) ==
    /\ pc[c] = "put"
    /\ ~Valid(Head(reqs[c]))
    /\ reqs'[c] # reqs[c]

HasRecord(t) ==
    \E i \in 1..Len(BUSY_THREADS) :
        BUSY_THREADS[i] = [index |-> thread_idx[t], request |-> t]

\* C13: the order of one task's lifecycle.  While its handler and its
\* completion callback run (and until line 111 removes it) the task has its
\* busy record and no callback was invoked for it before; when its drain
\* check runs, or has run, the callback was invoked and the record is gone.
C13_LifecycleOrder ==
    \A t \in Tasks :
        /\ pc[t] \in {"run", "free"} => HasRecord(t)
        /\ pc[t] = "run" => SUCCESS[t] + ERROR[t] = 0
        /\ (pc[t] = "check" \/ PastDrainCheck(t)) => Completed(t)

\* C14: construction succeeds only with N >= 1 handlers: no pool without a
\* handler exists to be started.
C14_NoPoolWithoutHandlers == running => thread_count >= 1

\* C15: add_threads appends worker capacity: the turn of its loop that takes
\* a callable handler from the list adds one slot to the pool.
C15_AddThreadsAddsSlots ==
    [][\A c \in Callers :
         (/\ pc[c] = "add_threads"
          /\ handlers[c] # <<>>
          /\ Callable(Head(handlers[c]))
          /\ handlers'[c] # handlers[c])
            => thread_count' = thread_count + 1]_vars

Min(a, b) == IF a <= b THEN a ELSE b

\* Dispatcher d leaves its pass with this step (continue, break, or the end
\* of the for loop).
PassEnds(d) == dpc[d] \in {"check", "for", "handle"} /\ dpc'[d] = "while"

\* The tasks the pass of d has dispatched once this step is done: the free
\* indices it has used up, the one a handle_request step is using included.
DispatchedInPass(d) ==
    pass[d][1] - Len(free_threads[d]) + (IF dpc[d] = "handle" THEN 1 ELSE 0)

\* C16: a pass that read the free list F while the queue held q tasks, and
\* that no put has overlapped, has dispatched min(|F|, q) tasks when it ends.
C16_PassDispatchesMin ==
    [][\A d \in Dispatchers :
         (PassEnds(d) /\ pass[d] # <<>>)
            => DispatchedInPass(d) = Min(pass[d][1], pass[d][2])]_vars

\* The busy records of the slots other than idx.
OtherSlots(busy, idx) == SelectSeq(busy, LAMBDA b : b.index # idx)

\* A step of the completion path (lines 106-112, 124-128) of a task whose
\* completion invokes, or has invoked, the ERROR callback.
FaultStep(t) ==
    /\ pc[t] \in {"run", "free", "check"}
    /\ pc'[t] # pc[t]
    /\ ERROR'[t] > 0

\* C17: a failure is contained at its task.  The completion path of a failed
\* task leaves the queue, the busy records of the other slots and the running
\* flag as they are, removes the record of its own slot, and goes on to Stop()
\* only from a drain check that found the queue empty and no slot busy; and
\* running becomes False by no step but line 169 of a Stop().
C17_FailureContained ==
    [][/\ \A t \in Tasks :
            FaultStep(t) =>
                /\ UNHANDLED' = UNHANDLED
                /\ OtherSlots(BUSY_THREADS', thread_idx[t])
                     = OtherSlots(BUSY_THREADS, thread_idx[t])
                /\ running' = running
                /\ pc'[t] = "check" => thread_idx[t] \notin busy_indices(BUSY_THREADS')
                /\ pc'[t] = "stop" => Drained(UNHANDLED, BUSY_THREADS)
       /\ (running /\ ~running') =>
            \E self \in Threads : pc[self] = "stop_set" /\ pc'[self] = "stop_alive"
      ]_vars

\* C17 witness: a task has failed and its worker is through, while another
\* task still executes with its busy record, on a pool still running.
C17_Witness ==
    \E t, u \in Tasks :
        /\ ERROR[t] > 0 /\ SUCCESS[t] = 0
        /\ pc[t] = "done"
        /\ pc[u] = "run" /\ HasRecord(u)
        /\ running

\* How often x occurs in the sequence seq.
Occurrences(seq, x) == Cardinality({i \in 1..Len(seq) : seq[i] = x})

\* The tasks of the busy records, in order.
BusyRequests == [i \in 1..Len(BUSY_THREADS) |-> BUSY_THREADS[i].request]

\* C18: each accepted task is executed at most once.  No task is handed to
\* handle_request twice, none is in two busy records, none has its handler
\* invoked twice (under Spec every handler invocation returns and is counted
\* by SUCCESS), and a task still queued or in a dispatcher's hand was not
\* dispatched.
C18_AtMostOnce ==
    \A t \in Tasks :
        /\ Occurrences(dispatched, t) <= 1
        /\ Occurrences(BusyRequests, t) <= 1
        /\ SUCCESS[t] <= 1
        /\ Occurrences(UNHANDLED, t) + Occurrences(dispatched, t)
             + Cardinality({d \in Dispatchers : request[d] = t}) <= 1

\* C18 witness: every task of the run was dispatched and its handler invoked
\* once, two of them on the same slot (by two dispatcher loops live together).
C18_Witness ==
    /\ \A t \in Tasks : SUCCESS[t] = 1 /\ Occurrences(dispatched, t) = 1
    /\ \E i, j \in 1..Len(BUSY_THREADS) :
         i # j /\ BUSY_THREADS[i].index = BUSY_THREADS[j].index

\* No task has completed yet: every dispatched handler is still executing.
NoCompletion == \A t \in Tasks : pc[t] \in {"none", "run"}

\* C19: add_requests starts an Idle pool whatever it enqueued, and a started
\* pool stays Running until a task completes or Stop() is called.  With
\* callers that never call Stop(): once a call (add_requests or Start) has
\* returned and as long as no task has completed, the pool is Running, its
\* dispatcher loop is alive (no loop has ended) and END was not invoked.
C19_StartedStaysRunning ==
    (/\ calls >= 1
     /\ \A c \in Callers : pc[c] = "idle"
     /\ NoCompletion)
        => /\ running
           /\ Alive(dispatcher_thread)
           /\ \A d \in Dispatchers : dpc[d] # "dead"
           /\ ENDS = 0

\* C19 witness: add_requests has returned having enqueued nothing (every
\* element was discarded), and the pool is Running, its dispatcher loop
\* polling an empty queue.
C19_Witness ==
    /\ discarded > 0
    /\ accepted = 0
    /\ \A c \in Callers : pc[c] = "idle"
    /\ running
    /\ \E d \in Dispatchers : dpc[d] = "check" /\ UNHANDLED = <<>>

=============================================================================
